---- MODULE Spec2Model ----
(***************************************************************************)
(* State-machine model of the scrim statistics backend                     *)
(* (scrim_stats_backend): player identity and team membership, grouping of *)
(* matches into scrim groups with game numbers, score details and match    *)
(* awards.  Each group of operations has its own specification over the    *)
(* shared variables.                                                       *)
(***************************************************************************)
EXTENDS Integers, Sequences, FiniteSets, TLC

(***************************************************************************)
(* Bounds of the model                                                     *)
(***************************************************************************)
NumTeams == 2
MaxPlayers == 1
MaxDay == 1
MaxHistory == 2
MaxAliases == 1

(***************************************************************************)
(* Null values of nullable columns and absent inputs                       *)
(***************************************************************************)
NoTeam == 0
NoPlayer == 0
NoDate == -1
NoName == ""

Teams == 1..NumTeams
Days == 0..MaxDay
Names == {"ign1", "ign2"}

VARIABLES
    \* ---- identity: api.models Player, PlayerTeamHistory, PlayerAlias ----
    players,        \* sequence of Player rows, index = player_id
    team_history,   \* sequence of PlayerTeamHistory rows, index = history_id
    aliases,        \* sequence of PlayerAlias rows, index = alias_id
    today,          \* timezone.now().date()
    resolution,     \* what the last identity lookup returned to its caller
    \* ---- sessions: api.models Match, ScrimGroup ----
    matches,        \* sequence of Match rows, index = match_id
    scrim_groups,   \* sequence of ScrimGroup rows, index = scrim_group_id
    suggestion,     \* what the last game-number suggestion was asked and answered
    assigning,      \* the calls of assign_scrim_group_for_match in progress
    \* ---- statistics of one match: PlayerMatchStat, MatchAward, MatchEditHistory ----
    stat_match,     \* the Match row the statistics belong to
    player_stats,   \* sequence of PlayerMatchStat rows, index = stats_id
    awards,         \* sequence of MatchAward rows in creation order
    edit_history,   \* sequence of MatchEditHistory rows
    scan_order,     \* the order in which the database returns rows that tie
    last_call,      \* the operation that ran last on the statistics
    pending         \* the bulk write in progress: its position and forms left

identityVars == <<players, team_history, aliases, today, resolution>>
sessionVars == <<matches, scrim_groups, suggestion, assigning>>

statsVars == <<stat_match, player_stats, awards, edit_history, scan_order, last_call,
               pending>>

vars == <<players, team_history, aliases, today, resolution, matches, scrim_groups, suggestion,
          assigning,
          stat_match, player_stats, awards, edit_history, scan_order, last_call,
          pending>>

(***************************************************************************)
(* Identity: rows and queries                                              *)
(***************************************************************************)
PlayerIds == 1..Len(players)

\* PlayerTeamHistory rows of player p with left_date = None
OpenHistory(h, p) ==
    {i \in 1..Len(h) : h[i].player = p /\ h[i].left_date = NoDate}

\* .filter(left_date=None).first() under Meta.ordering = ['-joined_date']
FirstOpen(h, p) ==
    IF OpenHistory(h, p) = {} THEN 0
    ELSE CHOOSE i \in OpenHistory(h, p) :
            \A j \in OpenHistory(h, p) :
                \/ h[i].joined_date > h[j].joined_date
                \/ (h[i].joined_date = h[j].joined_date /\ i <= j)

\* Player.get_current_team_history(): the player's open membership row
get_current_team_history(h, p) == FirstOpen(h, p)

NewHistory(p, team, date) ==
    [player |-> p, team |-> team, joined_date |-> date, left_date |-> NoDate]

\* players currently on the team: team_history__team=team, team_history__left_date=None
OnTeam(h, p, team) ==
    \E i \in 1..Len(h) : h[i].player = p /\ h[i].team = team /\ h[i].left_date = NoDate

MinOf(S) == CHOOSE x \in S : \A y \in S : x <= y

\* PlayerService.find_player_by_ign / Player.find_by_ign with a team
find_player_by_ign(ign, team) ==
    LET byName == {p \in PlayerIds : players[p].current_ign = ign /\ OnTeam(team_history, p, team)}
        byAlias == {a \in 1..Len(aliases) :
                        aliases[a].alias = ign /\ OnTeam(team_history, aliases[a].player, team)}
    IN  IF byName # {} THEN MinOf(byName)
        ELSE IF byAlias # {} THEN aliases[MinOf(byAlias)].player
        ELSE NoPlayer

(***************************************************************************)
(* Identity: operations on team membership                                 *)
(***************************************************************************)
\* a variant that opens the destination row without closing the open one
transfer_player_to_team_noclose(h, p, new_team, transfer_date) ==
    LET cur == get_current_team_history(h, p)
    IN  IF cur # 0 /\ h[cur].team # new_team
        THEN Append(h, NewHistory(p, new_team, transfer_date))
        ELSE IF cur = 0
        THEN Append(h, NewHistory(p, new_team, transfer_date))
        ELSE h

\* PlayerService.transfer_player_to_team
transfer_player_to_team(h, p, new_team, transfer_date) ==
    LET cur == get_current_team_history(h, p)
    IN  IF cur # 0 /\ h[cur].team # new_team
        THEN Append([h EXCEPT ![cur].left_date = transfer_date],
                    NewHistory(p, new_team, transfer_date))
        ELSE IF cur = 0
        THEN Append(h, NewHistory(p, new_team, transfer_date))
        ELSE h

\* Player.transfer_to_team: the open row is closed when the team differs;
\* the following test reads self.team, which Player does not define, so the
\* method raises AttributeError there and the new row is never created.
transfer_to_team(h, p, new_team, transfer_date) ==
    LET cur == FirstOpen(h, p)
    IN  IF cur # 0 /\ h[cur].team # new_team
        THEN [h EXCEPT ![cur].left_date = transfer_date]
        ELSE h

\* PlayerAdmin.save_related, the current_team field
save_related(h, p, current_team, now) ==
    IF current_team = NoTeam THEN h
    ELSE IF OnTeam(h, p, current_team) THEN h
    ELSE Append([i \in 1..Len(h) |->
                    IF h[i].player = p /\ h[i].left_date = NoDate
                    THEN [h[i] EXCEPT !.left_date = now] ELSE h[i]],
                NewHistory(p, current_team, now))

\* no identity lookup has answered since the last write
NoResolution == [request |-> <<>>, response |-> [action |-> "none"]]

\* the rows a transfer may add fit the modelled table
HistoryRoom == Len(team_history) < MaxHistory

\* PlayerService.get_or_create_player_for_team
GetOrCreatePlayerForTeam(ign, team) ==
    /\ find_player_by_ign(ign, team) = NoPlayer
    /\ Len(players) < MaxPlayers
    /\ HistoryRoom
    /\ players' = Append(players, [current_ign |-> ign])
    /\ team_history' = Append(team_history, NewHistory(Len(players) + 1, team, today))
    /\ resolution' = NoResolution
    /\ UNCHANGED <<aliases, today>>

\* PlayerSerializer.create: a player with an optional initial team
PlayerSerializerCreate(ign, team) ==
    /\ Len(players) < MaxPlayers
    /\ HistoryRoom
    /\ players' = Append(players, [current_ign |-> ign])
    /\ team_history' = IF team = NoTeam THEN team_history
                       ELSE Append(team_history, NewHistory(Len(players) + 1, team, today))
    /\ resolution' = NoResolution
    /\ UNCHANGED <<aliases, today>>

TransferDate(d) == IF d = NoDate THEN today ELSE d

ServiceTransfer(p, team, d) ==
    /\ HistoryRoom
    /\ team_history' = transfer_player_to_team(team_history, p, team, TransferDate(d))
    /\ resolution' = NoResolution
    /\ UNCHANGED <<players, aliases, today>>

ModelTransfer(p, team, d) ==
    /\ team_history' = transfer_to_team(team_history, p, team, TransferDate(d))
    /\ resolution' = NoResolution
    /\ UNCHANGED <<players, aliases, today>>

AdminSaveRelated(p, team) ==
    /\ HistoryRoom
    /\ team_history' = save_related(team_history, p, team, today)
    /\ resolution' = NoResolution
    /\ UNCHANGED <<players, aliases, today>>

\* Player.change_ign: alias for the old name, then the new name
ChangeIgn(p, new_ign) ==
    /\ Len(aliases) < MaxAliases
    /\ aliases' = IF players[p].current_ign # NoName
                  THEN Append(aliases, [player |-> p, alias |-> players[p].current_ign])
                  ELSE aliases
    /\ players' = [players EXCEPT ![p].current_ign = new_ign]
    /\ resolution' = NoResolution
    /\ UNCHANGED <<team_history, today>>

\* PlayerViewSet update / partial_update: PlayerSerializer writes the
\* submitted current_ign onto the row and saves it; no alias is created
PlayerViewSetUpdate(p, new_ign) ==
    /\ players' = [players EXCEPT ![p].current_ign = new_ign]
    /\ resolution' = NoResolution
    /\ UNCHANGED <<team_history, aliases, today>>

\* the calendar date moves on
NextDay ==
    /\ today < MaxDay
    /\ today' = today + 1
    /\ resolution' = NoResolution
    /\ UNCHANGED <<players, team_history, aliases>>

\* no suggestion has been answered since the last write of a match
NoSuggestion == [request |-> <<>>, response |-> 0]

SessionInit ==
    /\ matches = <<>>
    /\ scrim_groups = <<>>
    /\ suggestion = NoSuggestion
    /\ assigning = <<>>

NoScore == -1

\* Match.score_details = None
NoScoreDetails ==
    [score_by |-> "", blue_side_score |-> NoScore, red_side_score |-> NoScore,
     blue_side_team_name |-> NoTeam, red_side_team_name |-> NoTeam,
     final_score_our_team |-> NoScore, final_score_opponent_team |-> NoScore]

\* Match.match_outcome = None
NoOutcome == ""

\* the day of Match.match_date of the match the statistics belong to
StatMatchDate == 20

\* no bulk write was started
NoWrite == [phase |-> "idle", forms |-> <<>>, stats_saved |-> 0,
            scored |-> FALSE, awarded |-> FALSE]

\* a match of team 1 (blue side) against team 2 (red side) without statistics
MatchSetup(our_team, winning_team, outcome, order) ==
    /\ stat_match = [match_id |-> 1, our_team |-> our_team, opponent_team |-> 2,
                     blue_side_team |-> 1, red_side_team |-> 2,
                     winning_team |-> winning_team, match_date |-> StatMatchDate,
                     match_outcome |-> outcome, mvp |-> NoPlayer, mvp_loss |-> NoPlayer,
                     score_details |-> NoScoreDetails]
    /\ player_stats = <<>>
    /\ awards = <<>>
    /\ edit_history = <<>>
    /\ scan_order = order
    /\ last_call = "none"
    /\ pending = NoWrite

\* the match of our team 1, won (by team 1) or lost (to team 2)
StatsSetup(outcome, order) ==
    MatchSetup(1, IF outcome = "VICTORY" THEN 1 ELSE 2, outcome, order)

StatsIdle == StatsSetup("VICTORY", "asc")

IdentityInit ==
    /\ players = <<>>
    /\ team_history = <<>>
    /\ aliases = <<>>
    /\ today = 0
    /\ resolution = NoResolution

\* the state after construction: empty tables, a match without statistics
Init == IdentityInit /\ SessionInit /\ StatsIdle

\* membership does not depend on the name: one name is enough here
RosterNames == {"ign1"}

MembershipStep ==
    \/ \E ign \in RosterNames, team \in Teams : GetOrCreatePlayerForTeam(ign, team)
    \/ \E ign \in RosterNames, team \in Teams \cup {NoTeam} : PlayerSerializerCreate(ign, team)
    \/ \E p \in PlayerIds, team \in Teams, d \in Days \cup {NoDate} : ServiceTransfer(p, team, d)
    \/ \E p \in PlayerIds, team \in Teams, d \in Days \cup {NoDate} : ModelTransfer(p, team, d)
    \/ \E p \in PlayerIds, team \in Teams \cup {NoTeam} : AdminSaveRelated(p, team)
    \/ NextDay

MembershipNext == MembershipStep /\ UNCHANGED <<sessionVars, statsVars>>

SpecMembership == Init /\ [][MembershipNext]_vars

SuppliedIds == 0..(MaxPlayers + 1)

\* MatchStatsService._resolve_player(stat_data, team).  The module does not
\* import Player, so the branch for a supplied id raises NameError.
resolve_player(ign, player_id, is_new_player, team) ==
    IF player_id # NoPlayer /\ ~is_new_player
    THEN [action |-> "raised", error |-> "NameError"]
    ELSE IF ign # NoName /\ find_player_by_ign(ign, team) # NoPlayer
    THEN [action |-> "use_existing",
          player_id |-> find_player_by_ign(ign, team),
          ign |-> players[find_player_by_ign(ign, team)].current_ign,
          needs_verification |-> FALSE]
    ELSE IF is_new_player /\ ign # NoName
    THEN [action |-> "create_new", ign |-> ign, team_id |-> team,
          needs_verification |-> TRUE, verification_type |-> "new_player"]
    ELSE IF ign # NoName
    THEN [action |-> "create_new", ign |-> ign, team_id |-> team,
          needs_verification |-> TRUE, verification_type |-> "ign_not_found"]
    ELSE [action |-> "error", needs_verification |-> TRUE,
          verification_type |-> "missing_data"]

\* the team of the player's open membership row, if any
CurrentTeam(p) ==
    IF FirstOpen(team_history, p) = 0 THEN NoTeam
    ELSE team_history[FirstOpen(team_history, p)].team

\* PlayerLookupView.get(ign, team_id)
player_lookup(ign, team) ==
    LET exact == {p \in PlayerIds :
                    players[p].current_ign = ign /\ OnTeam(team_history, p, team)}
        alias == {[player_id |-> aliases[a].player,
                   previous_ign |-> aliases[a].alias,
                   team_id |-> CurrentTeam(aliases[a].player)] :
                        a \in {b \in 1..Len(aliases) : aliases[b].alias = ign}}
        other == {[player_id |-> p, team_id |-> CurrentTeam(p)] :
                        p \in {q \in PlayerIds :
                                /\ players[q].current_ign = ign
                                /\ ~OnTeam(team_history, q, team)
                                /\ CurrentTeam(q) # NoTeam}}
    IN  [action |-> "lookup",
         exact_matches |-> exact,
         alias_matches |-> IF exact = {} THEN alias ELSE {},
         other_team_matches |-> IF exact = {} THEN other ELSE {}]

ResolvePlayer(ign, player_id, is_new_player, team) ==
    /\ resolution' = [request |-> <<ign, team, player_id, is_new_player>>,
                      response |-> resolve_player(ign, player_id, is_new_player, team)]
    /\ UNCHANGED <<players, team_history, aliases, today>>

PlayerLookup(ign, team) ==
    /\ resolution' = [request |-> <<ign, team, NoPlayer, FALSE>>,
                      response |-> player_lookup(ign, team)]
    /\ UNCHANGED <<players, team_history, aliases, today>>

ResolveStep ==
    \/ \E ign \in Names, team \in Teams : GetOrCreatePlayerForTeam(ign, team)
    \/ \E p \in PlayerIds, ign \in Names : ChangeIgn(p, ign)
    \/ \E p \in PlayerIds, ign \in Names : PlayerViewSetUpdate(p, ign)
    \/ \E p \in PlayerIds, team \in Teams : ServiceTransfer(p, team, NoDate)
    \/ \E ign \in Names \cup {NoName}, pid \in SuppliedIds, new \in BOOLEAN, team \in Teams :
            ResolvePlayer(ign, pid, new, team)
    \/ \E ign \in Names, team \in Teams : PlayerLookup(ign, team)

ResolveNext == ResolveStep /\ UNCHANGED <<sessionVars, statsVars>>

SpecResolve == Init /\ [][ResolveNext]_vars

\* the candidates and the resolutions a response carries
Candidates(r) ==
    (IF "candidates" \in DOMAIN r THEN r.candidates ELSE {})
    \cup (IF "alias_matches" \in DOMAIN r
          THEN {c.player_id : c \in r.alias_matches} ELSE {})
Options(r) == IF "options" \in DOMAIN r THEN r.options ELSE {}
NeedsVerification(r) ==
    IF "needs_verification" \in DOMAIN r THEN r.needs_verification ELSE FALSE

\* the name is no current name on the target team, and is an alias of p, who
\* is currently on a different team
AliasOnOtherTeam(ign, team, p) ==
    /\ ign # NoName
    /\ ~\E q \in PlayerIds : players[q].current_ign = ign /\ OnTeam(team_history, q, team)
    /\ \E a \in 1..Len(aliases) : aliases[a].alias = ign /\ aliases[a].player = p
    /\ CurrentTeam(p) # NoTeam
    /\ CurrentTeam(p) # team

(***************************************************************************)
(* C7: resolving a name that has no exact current-name match on the target *)
(* team but is an alias of a player currently on a different team returns  *)
(* a needs-verification result that carries that player as a candidate and *)
(* offers the transfer_player resolution.                                  *)
(***************************************************************************)
C7_AliasElsewhereNeedsVerification ==
    resolution.response.action \notin {"none", "lookup"} =>
        \A p \in PlayerIds :
            (/\ resolution.request[3] = NoPlayer
             /\ AliasOnOtherTeam(resolution.request[1], resolution.request[2], p))
            => /\ NeedsVerification(resolution.response)
               /\ p \in Candidates(resolution.response)
               /\ "transfer_player" \in Options(resolution.response)

(***************************************************************************)
(* Sessions: matches, scrim groups and game numbers                        *)
(***************************************************************************)
\* match_date is a timestamp counted in half hours
UnitsPerHour == 2
UnitsPerDay == 24 * UnitsPerHour
\* timedelta(hours=6) of assign_scrim_group_for_match
GroupWindowHours == 6

\* 10:00, 10:30, 17:00 of one day and 00:00 of the next
MatchTimes == {20, 21, 34, 48}
NoType == ""
ScrimTypes == {"SCRIMMAGE", "TOURNAMENT"}
NoGroup == 0

\* match_date.strftime('%Y-%m-%d') and match_date.date(): the calendar day
DateOf(t) == t \div UnitsPerDay

LiveMatches == {m \in 1..Len(matches) : matches[m].live}

\* f"{blue.team_name} vs {red.team_name} - {date} - {scrim_type}"
group_name(match) ==
    <<"service", match.blue_side_team, match.red_side_team,
      DateOf(match.match_date), match.scrim_type>>

\* the filter of assign_scrim_group_for_match: same blue side, same red side,
\* same type, match_date in [match_date - 6h, match_date)
PreviousMatches(ms, m) ==
    {p \in 1..Len(ms) :
        /\ ms[p].live
        /\ ms[p].blue_side_team = ms[m].blue_side_team
        /\ ms[p].red_side_team = ms[m].red_side_team
        /\ ms[p].scrim_type = ms[m].scrim_type
        /\ ms[p].match_date < ms[m].match_date
        /\ ms[p].match_date >= ms[m].match_date - GroupWindowHours * UnitsPerHour}

\* .order_by('-match_date').first(): a row with the latest match_date; rows
\* with equal match_date come in no specified order
MostRecent(ms, S) == {p \in S : \A q \in S : ms[p].match_date >= ms[q].match_date}

\* ScrimGroup.objects.get_or_create(scrim_group_name=..., start_date=...)
GroupsNamed(gs, name, date) ==
    {g \in 1..Len(gs) : gs[g].scrim_group_name = name /\ gs[g].start_date = date}

\* existing_matches.count() + 1 over the other matches of the group
game_number_for(ms, m) ==
    Cardinality({o \in 1..Len(ms) :
                    ms[o].live /\ o # m /\ ms[o].scrim_group = ms[m].scrim_group}) + 1

\* the early return of assign_scrim_group_for_match
CannotGroup(match) ==
    \/ match.blue_side_team = NoTeam
    \/ match.red_side_team = NoTeam
    \/ match.scrim_type = NoType

MaxMatches == 2

\* the game numbers a client sends with a new match
GameNumbers == {1, 2}

NewMatch(our, blue, red, type, t, number) ==
    [live |-> TRUE, our_team |-> our, blue_side_team |-> blue, red_side_team |-> red,
     scrim_type |-> type, match_date |-> t,
     scrim_group |-> NoGroup, game_number |-> number,
     numbered |-> FALSE]   \* game_number is still the one the client sent

\* the rows .first() may return for the previous-match query; 0 when none
PreviousChoices(ms, m) ==
    IF PreviousMatches(ms, m) = {} THEN {0}
    ELSE MostRecent(ms, PreviousMatches(ms, m))

\* MatchStatsService.assign_scrim_group_for_match(match), with prev the row
\* the previous-match query returned: the tables after the call
assign_scrim_group_for_match(ms, gs, m, prev) ==
    IF CannotGroup(ms[m]) THEN [matches |-> ms, scrim_groups |-> gs]
    ELSE
        LET name == group_name(ms[m])
            date == DateOf(ms[m].match_date)
            reuse == prev # 0 /\ ms[prev].scrim_group # NoGroup
            found == GroupsNamed(gs, name, date)
            group == IF reuse THEN ms[prev].scrim_group
                     ELSE IF found # {} THEN MinOf(found)
                     ELSE Len(gs) + 1
            saved == [ms EXCEPT ![m].scrim_group = group]
        IN  [matches |-> [saved EXCEPT ![m].game_number = game_number_for(saved, m),
                                       ![m].numbered = TRUE],
             scrim_groups |->
                 IF reuse \/ found # {} THEN gs
                 ELSE Append(gs, [scrim_group_name |-> name, start_date |-> date])]

\* a match is created and then assigned to its scrim group
SubmitMatch(our, blue, red, type, t, number) ==
    /\ Len(matches) < MaxMatches
    /\ suggestion' = NoSuggestion
    /\ UNCHANGED assigning
    /\ LET created == Append(matches, NewMatch(our, blue, red, type, t, number))
           m == Len(matches) + 1
       IN  \E prev \in PreviousChoices(created, m) :
              /\ matches' = assign_scrim_group_for_match(created, scrim_groups, m, prev).matches
              /\ scrim_groups' =
                    assign_scrim_group_for_match(created, scrim_groups, m, prev).scrim_groups

\* assign_scrim_group_for_match called again for a stored match
AssignScrimGroup(m) ==
    /\ m \in LiveMatches
    /\ suggestion' = NoSuggestion
    /\ UNCHANGED assigning
    /\ \E prev \in PreviousChoices(matches, m) :
          /\ matches' = assign_scrim_group_for_match(matches, scrim_groups, m, prev).matches
          /\ scrim_groups' =
                assign_scrim_group_for_match(matches, scrim_groups, m, prev).scrim_groups

MaxHourWindow == 8

\* the name find_or_create_scrim_group gives a new group
view_group_name(match) ==
    <<"view", match.blue_side_team, match.red_side_team,
      DateOf(match.match_date), match.scrim_type>>

\* the filter of find_or_create_scrim_group: both sides among the two teams,
\* same type, match_date within 8 hours either way, already in a group
matches_in_window(ms, teams, match_date, scrim_type) ==
    {p \in 1..Len(ms) :
        /\ ms[p].live
        /\ ms[p].match_date >= match_date - MaxHourWindow * UnitsPerHour
        /\ ms[p].match_date <= match_date + MaxHourWindow * UnitsPerHour
        /\ ms[p].scrim_type = scrim_type
        /\ ms[p].blue_side_team \in teams
        /\ ms[p].red_side_team \in teams
        /\ ms[p].scrim_group # NoGroup}

\* MatchViewSet.perform_create: the match is saved with the game number the
\* client sent, then put in the group find_or_create_scrim_group returns
PerformCreate(our, blue, red, type, t, number) ==
    /\ Len(matches) < MaxMatches
    /\ suggestion' = NoSuggestion
    /\ UNCHANGED assigning
    /\ LET created == Append(matches, NewMatch(our, blue, red, type, t, number))
           m == Len(matches) + 1
           window == matches_in_window(created, {blue, red}, t, type)
       IN  IF window # {}
           THEN /\ \E p \in MostRecent(created, window) :
                      matches' = [created EXCEPT ![m].scrim_group = created[p].scrim_group]
                /\ UNCHANGED scrim_groups
           ELSE /\ matches' = [created EXCEPT ![m].scrim_group = Len(scrim_groups) + 1]
                /\ scrim_groups' =
                      Append(scrim_groups,
                             [scrim_group_name |-> view_group_name(created[m]),
                              start_date |-> DateOf(t)])

\* the id of a deleted row is not reused; its data is gone
DeletedMatch ==
    [live |-> FALSE, our_team |-> NoTeam, blue_side_team |-> NoTeam, red_side_team |-> NoTeam,
     scrim_type |-> NoType, match_date |-> 0,
     scrim_group |-> NoGroup, game_number |-> 0, numbered |-> FALSE]

\* deleting a match row
DeleteMatch(m) ==
    /\ m \in LiveMatches
    /\ suggestion' = NoSuggestion
    /\ UNCHANGED assigning
    /\ matches' = [matches EXCEPT ![m] = DeletedMatch]
    /\ UNCHANGED scrim_groups

\* the two teams of a scrim block, on either side
SessionTeams == {1, 2}
OrderedTeamPairs == {pr \in SessionTeams \X SessionTeams : pr[1] # pr[2]}

\* our_team of a new match: the uploader's team, or none for an external match
HomeChoices(pr) == {NoTeam, pr[1]}

GrouperStep ==
    \/ \E pr \in OrderedTeamPairs, type \in ScrimTypes \cup {NoType}, t \in MatchTimes,
          number \in GameNumbers :
          \E our \in HomeChoices(pr) :
            SubmitMatch(our, pr[1], pr[2], type, t, number)
    \/ \E pr \in OrderedTeamPairs, type \in ScrimTypes, t \in MatchTimes,
          number \in GameNumbers :
          \E our \in HomeChoices(pr) :
            PerformCreate(our, pr[1], pr[2], type, t, number)
    \/ \E m \in LiveMatches : AssignScrimGroup(m)
    \/ \E m \in LiveMatches : DeleteMatch(m)

GrouperNext == GrouperStep /\ UNCHANGED <<identityVars, statsVars>>

SpecGrouper == Init /\ [][GrouperNext]_vars

\* two stored matches between the same two teams (on any sides), of one type
SamePairing(a, b) ==
    /\ a \in LiveMatches /\ b \in LiveMatches /\ a # b
    /\ {matches[a].blue_side_team, matches[a].red_side_team}
          = {matches[b].blue_side_team, matches[b].red_side_team}
    /\ matches[a].scrim_type = matches[b].scrim_type
    /\ matches[a].scrim_group # NoGroup
    /\ matches[b].scrim_group # NoGroup

\* every stored match was submitted and none was deleted
OnlySubmissions == \A m \in 1..Len(matches) : matches[m].live

(***************************************************************************)
(* C2: two matches between the same teams, of the same type, whose         *)
(* timestamps are 7 hours apart are in two different sessions, also when   *)
(* both timestamps lie on one calendar date.                               *)
(***************************************************************************)
C2_SevenHoursApartDifferentSessions ==
    \A a, b \in LiveMatches :
        (/\ SamePairing(a, b)
         /\ matches[b].match_date - matches[a].match_date = 7 * UnitsPerHour)
        => matches[a].scrim_group # matches[b].scrim_group

(***************************************************************************)
(* C3: two matches between the same teams, of the same type, 30 minutes    *)
(* apart, both created and grouped, are in the same session, the earlier   *)
(* with sequence number 1 and the later with 2, in either submission order.*)
(***************************************************************************)
C3_HalfHourApartNumberedInTimeOrder ==
    \A a, b \in LiveMatches :
        (/\ OnlySubmissions
         /\ Len(matches) = 2
         /\ SamePairing(a, b)
         /\ matches[a].blue_side_team = matches[b].blue_side_team
         /\ matches[a].numbered /\ matches[b].numbered
         /\ matches[b].match_date - matches[a].match_date = UnitsPerHour \div 2)
        => /\ matches[a].scrim_group = matches[b].scrim_group
           /\ matches[a].game_number = 1
           /\ matches[b].game_number = 2

(***************************************************************************)
(* C5: grouping treats the two teams as an unordered pair: a new match     *)
(* within the 6-hour trailing window of an earlier match of the same type  *)
(* between the same two teams joins that match's session, also when the    *)
(* sides are swapped.                                                      *)
(***************************************************************************)
C5_UnorderedPairJoinsSession ==
    \A a, b \in LiveMatches :
        (/\ OnlySubmissions
         /\ Len(matches) = 2
         /\ a < b
         /\ SamePairing(a, b)
         /\ matches[a].match_date < matches[b].match_date
         /\ matches[a].match_date >= matches[b].match_date - GroupWindowHours * UnitsPerHour)
        => matches[b].scrim_group = matches[a].scrim_group

\* the live matches of a scrim group
MatchesOfGroup(g) == {m \in LiveMatches : matches[m].scrim_group = g}

(***************************************************************************)
(* C6: in every reachable state the game numbers of the matches of one     *)
(* session, each set by an assignment to count of the others + 1, are      *)
(* pairwise distinct and start at 1.                                       *)
(***************************************************************************)
C6_GameNumbersDistinctFromOne ==
    \A g \in 1..Len(scrim_groups) :
        (\A m \in MatchesOfGroup(g) : matches[m].numbered) =>
            /\ \A a, b \in MatchesOfGroup(g) :
                  a # b => matches[a].game_number # matches[b].game_number
            /\ MatchesOfGroup(g) # {} =>
                  \E a \in MatchesOfGroup(g) : matches[a].game_number = 1

(***************************************************************************)
(* Statistics of one match: stat rows, score details, awards               *)
(***************************************************************************)
MaxStats == 2
MaxEdits == 2

\* the teams a stat row can name: the two of the match and another one
MatchTeams == {1, 2, 3}
StatPlayers == {1, 2}

\* computed_kda is held in hundredths
KdaScale == 100

\* the computed_kda field of a form left blank
NoKda == -1

\* kills, deaths, assists, the KDA entered with them, and gold
LineA == [kills |-> 2, deaths |-> 1, assists |-> 0, computed_kda |-> 200, gold_earned |-> 0]
LineB == [kills |-> 1, deaths |-> 0, assists |-> 1, computed_kda |-> 200, gold_earned |-> 1]
\* 3/2/2 with the KDA 4.0 entered, and 3/0/2 with the KDA left blank
LineC == [kills |-> 3, deaths |-> 2, assists |-> 2, computed_kda |-> 400, gold_earned |-> 0]
LineD == [kills |-> 3, deaths |-> 0, assists |-> 2, computed_kda |-> NoKda, gold_earned |-> 0]

\* what is entered in the add form of PlayerMatchStatAdmin
AdminEntries ==
    {[player |-> 1, team |-> 1, line |-> LineA],
     [player |-> 2, team |-> 2, line |-> LineB],
     [player |-> 2, team |-> 3, line |-> LineA]}

\* the formsets posted to bulk_add_stats_view
BulkSubmissions ==
    {<<>>,
     <<[player |-> 1, is_our_team |-> TRUE, line |-> LineA]>>,
     <<[player |-> 1, is_our_team |-> TRUE, line |-> LineB],
       [player |-> 2, is_our_team |-> FALSE, line |-> LineA]>>}

\* formsets with a KDA that was typed in and a KDA that was left blank
KdaSubmissions ==
    {<<[player |-> 1, is_our_team |-> TRUE, line |-> LineC]>>,
     <<[player |-> 2, is_our_team |-> FALSE, line |-> LineD]>>}

\* stats_data of update_player_stats
UpdateData == {[kills |-> 0, deaths |-> 2, assists |-> 3]}

\* the (mvp, mvp_loss) selections sent with a match update
MvpChoices == {<<1, 2>>, <<2, NoPlayer>>}

LiveStats(ps) == {i \in 1..Len(ps) : ps[i].live}

StatRow(player, team, line) ==
    [live |-> TRUE, player |-> player, team |-> team,
     kills |-> line.kills, deaths |-> line.deaths, assists |-> line.assists,
     computed_kda |-> line.computed_kda, gold_earned |-> line.gold_earned]

\* a deleted PlayerMatchStat row: its id is not reused
DeletedStat ==
    [live |-> FALSE, player |-> NoPlayer, team |-> NoTeam,
     kills |-> 0, deaths |-> 0, assists |-> 0, computed_kda |-> 0, gold_earned |-> 0]

\* sum(stat.kills for stat in stats if stat.team_id == team)
RECURSIVE kills_of_team(_, _)
kills_of_team(ps, team) ==
    IF ps = <<>> THEN 0
    ELSE (IF Head(ps).live /\ Head(ps).team = team THEN Head(ps).kills ELSE 0)
         + kills_of_team(Tail(ps), team)

\* the kills of the rows that are not of the given team
RECURSIVE kills_of_others(_, _)
kills_of_others(ps, team) ==
    IF ps = <<>> THEN 0
    ELSE (IF Head(ps).live /\ Head(ps).team # team THEN Head(ps).kills ELSE 0)
         + kills_of_others(Tail(ps), team)

\* a variant that gives the red side every row that is not on the blue side
calculate_score_details_rest(match, ps) ==
    IF LiveStats(ps) = {} THEN match.score_details
    ELSE [score_by |-> "kills",
          blue_side_score |-> kills_of_team(ps, match.blue_side_team),
          red_side_score |-> kills_of_others(ps, match.blue_side_team),
          blue_side_team_name |-> match.blue_side_team,
          red_side_team_name |-> match.red_side_team,
          final_score_our_team |-> NoScore, final_score_opponent_team |-> NoScore]

\* MatchStatsService.calculate_score_details(match): the score_details the
\* match has afterwards; nothing is saved for a match without stat rows
calculate_score_details(match, ps) ==
    IF LiveStats(ps) = {} THEN match.score_details
    ELSE [score_by |-> "kills",
          blue_side_score |-> kills_of_team(ps, match.blue_side_team),
          red_side_score |-> kills_of_team(ps, match.red_side_team),
          blue_side_team_name |-> match.blue_side_team,
          red_side_team_name |-> match.red_side_team,
          final_score_our_team |-> NoScore, final_score_opponent_team |-> NoScore]

\* Match.calculate_score_details(): final_score by our_team / opponent_team,
\* every row that is not of our_team counts for the opponent
Match_calculate_score_details(match, ps) ==
    [score_by |-> "final_score",
     blue_side_score |-> NoScore, red_side_score |-> NoScore,
     blue_side_team_name |-> NoTeam, red_side_team_name |-> NoTeam,
     final_score_our_team |-> kills_of_team(ps, match.our_team),
     final_score_opponent_team |-> kills_of_others(ps, match.our_team)]

\* Match.save(update_fields): recomputes the score when the match has stat
\* rows and score_details is not among the saved fields
Match_save(match, ps, update_fields) ==
    IF LiveStats(ps) # {} /\ "score_details" \notin update_fields
    THEN [match EXCEPT !.score_details = Match_calculate_score_details(match, ps)]
    ELSE match

MaxOf(S) == CHOOSE x \in S : \A y \in S : y <= x

\* queryset.order_by(stat_field).first(), '-stat_field' unless ascending:
\* the best row, rows that tie in scan order
TopStat(order, ps, S, stat_field, ascending) ==
    LET best == IF ascending
                THEN {i \in S : \A j \in S : ps[i][stat_field] <= ps[j][stat_field]}
                ELSE {i \in S : \A j \in S : ps[i][stat_field] >= ps[j][stat_field]}
    IN  IF order = "asc" THEN MinOf(best) ELSE MaxOf(best)

\* queryset.first() without an ordering
FirstStat(order, S) == IF order = "asc" THEN MinOf(S) ELSE MaxOf(S)

NewAward(match, player, award_type, stat_value) ==
    [match |-> match.match_id, player |-> player,
     award_type |-> award_type, stat_value |-> stat_value]

\* create_award_from_stat(match, stat_queryset, award_type, stat_field, ascending)
create_award_from_stat(aw, match, ps, order, S, award_type, stat_field, ascending) ==
    IF S = {} THEN aw
    ELSE LET top == TopStat(order, ps, S, stat_field, ascending)
         IN  Append(aw, NewAward(match, ps[top].player, award_type, ps[top][stat_field]))

\* a variant that deletes nothing
delete_match_awards_none(aw, match) == aw

\* MatchAward.objects.filter(match=match).delete()
delete_match_awards(aw, match) ==
    SelectSeq(aw, LAMBDA a : a.match # match.match_id)

\* MatchAward.assign_match_awards(match): the award table afterwards
MatchAward_assign_match_awards(aw, match, ps, order) ==
    LET cleared == delete_match_awards(aw, match)
        all_stats == LiveStats(ps)
        winning_team == IF match.match_outcome = "VICTORY"
                        THEN match.our_team ELSE match.opponent_team
        losing_team == IF match.match_outcome = "VICTORY"
                       THEN match.opponent_team ELSE match.our_team
        a1 == create_award_from_stat(cleared, match, ps, order,
                 {i \in all_stats : ps[i].team = winning_team}, "MVP", "computed_kda", FALSE)
        a2 == create_award_from_stat(a1, match, ps, order,
                 {i \in all_stats : ps[i].team = losing_team}, "MVP_LOSS", "computed_kda", FALSE)
        a3 == create_award_from_stat(a2, match, ps, order, all_stats,
                 "BEST_KDA", "computed_kda", FALSE)
        a4 == create_award_from_stat(a3, match, ps, order, all_stats,
                 "MOST_KILLS", "kills", FALSE)
        a5 == create_award_from_stat(a4, match, ps, order, all_stats,
                 "MOST_ASSISTS", "assists", FALSE)
        a6 == create_award_from_stat(a5, match, ps, order,
                 {i \in all_stats : ps[i].deaths > 0}, "LEAST_DEATHS", "deaths", TRUE)
        a7 == create_award_from_stat(a6, match, ps, order,
                 {i \in all_stats : ps[i].gold_earned > 0}, "MOST_GOLD", "gold_earned", FALSE)
    IN  IF all_stats = {} THEN cleared ELSE a7

\* the award of a player the user selected (match.mvp, match.mvp_loss)
selected_award(aw, match, ps, order, player, award_type) ==
    LET rows == {i \in LiveStats(ps) : ps[i].player = player}
    IN  IF player = NoPlayer \/ rows = {} THEN aw
        ELSE Append(aw, NewAward(match, player, award_type,
                                 ps[FirstStat(order, rows)].computed_kda))

\* the awards AwardService.assign_match_awards creates, added to a table
service_awards(start, match, ps, order) ==
    LET all_stats == LiveStats(ps)
        a1 == selected_award(start, match, ps, order, match.mvp, "MVP")
        a2 == selected_award(a1, match, ps, order, match.mvp_loss, "MVP_LOSS")
        a3 == create_award_from_stat(a2, match, ps, order, all_stats,
                 "BEST_KDA", "computed_kda", FALSE)
        a4 == create_award_from_stat(a3, match, ps, order, all_stats,
                 "MOST_KILLS", "kills", FALSE)
        a5 == create_award_from_stat(a4, match, ps, order, all_stats,
                 "MOST_ASSISTS", "assists", FALSE)
        a6 == create_award_from_stat(a5, match, ps, order,
                 {i \in all_stats : ps[i].deaths > 0}, "LEAST_DEATHS", "deaths", TRUE)
        a7 == create_award_from_stat(a6, match, ps, order,
                 {i \in all_stats : ps[i].gold_earned > 0}, "MOST_GOLD", "gold_earned", FALSE)
    IN  IF all_stats = {} THEN start ELSE a7

\* a variant that does not clear the awards of the match first
assign_match_awards_keep(aw, match, ps, order) ==
    service_awards(aw, match, ps, order)

\* AwardService.assign_match_awards(match): the award table afterwards
assign_match_awards(aw, match, ps, order) ==
    service_awards(SelectSeq(aw, LAMBDA a : a.match # match.match_id), match, ps, order)

\* PlayerMatchStatAdmin add form: PlayerMatchStat.save() stores the row with
\* the team entered; the post_save signal reassigns the awards
AdminStatSave(entry) ==
    /\ Len(player_stats) < MaxStats
    /\ LET ps == Append(player_stats, StatRow(entry.player, entry.team, entry.line))
       IN  /\ player_stats' = ps
           /\ awards' = MatchAward_assign_match_awards(awards, stat_match, ps, scan_order)
    /\ last_call' = "admin_stat_save"
    /\ UNCHANGED <<stat_match, edit_history, scan_order>>

\* PlayerStatForm.clean: a KDA left blank is computed from the other fields,
\* with 1 for 0 deaths, and rounded to two places
PlayerStatForm_clean(line) ==
    IF line.computed_kda = NoKda
    THEN LET deaths == IF line.deaths = 0 THEN 1 ELSE line.deaths
         IN  [line EXCEPT !.computed_kda =
                 (2 * (line.kills + line.assists) * KdaScale + deaths) \div (2 * deaths)]
    ELSE line

\* the rows bulk_add_stats_view creates from its forms: the KDA of a row is
\* the computed_kda of the cleaned form
BulkRows(match, forms) ==
    [k \in 1..Len(forms) |->
        StatRow(forms[k].player,
                IF forms[k].is_our_team THEN match.our_team ELSE match.opponent_team,
                PlayerStatForm_clean(forms[k].line))]

\* MatchAdmin.bulk_add_stats_view: the existing rows are deleted, one row is
\* created per form (each save reassigns the awards), and the score and the
\* awards are recomputed when at least one row was saved
BulkAddStats(forms) ==
    /\ Len(player_stats) + Len(forms) <= MaxStats
    /\ LET deleted == [i \in 1..Len(player_stats) |-> DeletedStat]
           ps == deleted \o BulkRows(stat_match, forms)
       IN  /\ player_stats' = ps
           /\ IF Len(forms) > 0
              THEN /\ stat_match' =
                        [stat_match EXCEPT
                            !.score_details = Match_calculate_score_details(stat_match, ps)]
                   /\ awards' =
                        MatchAward_assign_match_awards(awards, stat_match, ps, scan_order)
              ELSE UNCHANGED <<stat_match, awards>>
    /\ last_call' = "bulk_add_stats"
    /\ UNCHANGED <<edit_history, scan_order>>

\* MatchStatsService.update_player_stats(stats_id, stats_data, user): the
\* row is saved (the signal reassigns the awards), a history entry is
\* written and the score is recalculated
UpdatePlayerStats(i, data) ==
    /\ i \in LiveStats(player_stats)
    /\ Len(edit_history) < MaxEdits
    /\ LET ps == [player_stats EXCEPT ![i].kills = data.kills,
                                      ![i].deaths = data.deaths,
                                      ![i].assists = data.assists]
       IN  /\ player_stats' = ps
           /\ awards' = MatchAward_assign_match_awards(awards, stat_match, ps, scan_order)
           /\ stat_match' =
                 [stat_match EXCEPT !.score_details = calculate_score_details(stat_match, ps)]
    /\ edit_history' =
          Append(edit_history,
                 [match |-> stat_match.match_id, edit_type |-> "PLAYER_STATS",
                  related_player_stat_id |-> i,
                  previous_values |-> [kills |-> player_stats[i].kills,
                                       deaths |-> player_stats[i].deaths,
                                       assists |-> player_stats[i].assists],
                  new_values |-> data])
    /\ last_call' = "update_player_stats"
    /\ UNCHANGED scan_order

\* MatchStatsService.calculate_score_details(match) called on its own
CalculateScoreDetails ==
    /\ stat_match' =
          [stat_match EXCEPT
              !.score_details = calculate_score_details(stat_match, player_stats)]
    /\ last_call' = "calculate_score_details"
    /\ UNCHANGED <<player_stats, awards, edit_history, scan_order>>

\* AwardService.assign_match_awards(match) called on its own
AssignMatchAwards ==
    /\ awards' = assign_match_awards(awards, stat_match, player_stats, scan_order)
    /\ last_call' = "assign_match_awards"
    /\ UNCHANGED <<stat_match, player_stats, edit_history, scan_order>>

\* MatchAdmin.save_model: obj.save(), then the awards are assigned when the
\* match has stat rows
MatchAdminSave ==
    /\ stat_match' = Match_save(stat_match, player_stats, {})
    /\ awards' = IF LiveStats(player_stats) # {}
                 THEN MatchAward_assign_match_awards(awards, stat_match,
                                                     player_stats, scan_order)
                 ELSE awards
    /\ last_call' = "match_admin_save"
    /\ UNCHANGED <<player_stats, edit_history, scan_order>>

\* MatchSerializer.update with new MVP selections and the other fields as
\* they are, ending in instance.save()
MatchSerializerUpdate(mvp, mvp_loss) ==
    /\ stat_match' = Match_save([stat_match EXCEPT !.mvp = mvp, !.mvp_loss = mvp_loss],
                                player_stats, {})
    /\ last_call' = "match_update"
    /\ UNCHANGED <<player_stats, awards, edit_history, scan_order>>

\* the match was won or lost, the database scans rows up or down
StatsInit ==
    /\ IdentityInit
    /\ SessionInit
    /\ \E outcome \in {"VICTORY", "DEFEAT"}, order \in {"asc", "desc"} :
          StatsSetup(outcome, order)

StatsStep ==
    \/ \E entry \in AdminEntries : AdminStatSave(entry)
    \/ \E forms \in BulkSubmissions : BulkAddStats(forms)
    \/ \E i \in LiveStats(player_stats), data \in UpdateData : UpdatePlayerStats(i, data)
    \/ CalculateScoreDetails
    \/ AssignMatchAwards
    \/ MatchAdminSave
    \/ \E choice \in MvpChoices : MatchSerializerUpdate(choice[1], choice[2])

StatsNext == StatsStep /\ UNCHANGED <<identityVars, sessionVars, pending>>

SpecStats == StatsInit /\ [][StatsNext]_vars

\* the two sides of the match
Sides == {stat_match.blue_side_team, stat_match.red_side_team}

(***************************************************************************)
(* C4: the team of every stored stat row is one of the two teams of its    *)
(* match; a row of a third team is rejected and never stored or counted.   *)
(***************************************************************************)
C4_StatTeamIsASide ==
    \A i \in LiveStats(player_stats) : player_stats[i].team \in Sides

\* the kills of the stored rows of a team, summed row id by row id
RECURSIVE KillsUpTo(_, _)
KillsUpTo(n, team) ==
    IF n = 0 THEN 0
    ELSE KillsUpTo(n - 1, team)
         + (IF player_stats[n].live /\ player_stats[n].team = team
            THEN player_stats[n].kills ELSE 0)

KillsOn(team) == KillsUpTo(Len(player_stats), team)

\* the last operation ended with MatchStatsService.calculate_score_details
ScoreJustCalculated == last_call \in {"calculate_score_details", "update_player_stats"}

ScoreIsCurrent ==
    LET sd == stat_match.score_details
        total == KillsOn(1) + KillsOn(2) + KillsOn(3)
    IN  IF LiveStats(player_stats) = {}
        THEN \/ sd = NoScoreDetails
             \/ sd.score_by = "kills" /\ sd.blue_side_score = 0 /\ sd.red_side_score = 0
             \/ /\ sd.score_by = "final_score"
                /\ sd.final_score_our_team = 0
                /\ sd.final_score_opponent_team = 0
        ELSE \/ /\ sd.score_by = "kills"
                /\ sd.blue_side_score = KillsOn(stat_match.blue_side_team)
                /\ sd.red_side_score = KillsOn(stat_match.red_side_team)
             \/ /\ sd.score_by = "final_score"
                /\ sd.final_score_our_team = KillsOn(stat_match.our_team)
                /\ sd.final_score_opponent_team = total - KillsOn(stat_match.our_team)

\* the writes of stat rows through the bulk view and the service
StatWrites == {"bulk_add_stats", "update_player_stats"}

(***************************************************************************)
(* C9: after every completed write of the stat rows of a match (create,    *)
(* update of a row, bulk replace, also one that leaves no row) the stored  *)
(* score_details are the score of the rows now stored.                     *)
(***************************************************************************)
C9_ScoreCurrentAfterStatWrite ==
    last_call \in StatWrites => ScoreIsCurrent

\* no two awards with the same type, player and value
NoDuplicateAwards ==
    \A a, b \in 1..Len(awards) :
        (/\ a # b
         /\ awards[a].award_type = awards[b].award_type
         /\ awards[a].player = awards[b].player)
        => awards[a].stat_value # awards[b].stat_value

AwardSet(aw) == {aw[k] : k \in 1..Len(aw)}

(***************************************************************************)
(* C10: when award assignment has just run, running it again on the same   *)
(* stat rows and MVP selections leaves the same set of (award type,        *)
(* player, value) awards, and the award table has no duplicate rows.       *)
(***************************************************************************)
C10_AwardAssignmentIdempotent ==
    /\ last_call = "assign_match_awards" =>
          /\ AwardSet(assign_match_awards(awards, stat_match, player_stats, scan_order))
                = AwardSet(awards)
          /\ Len(assign_match_awards(awards, stat_match, player_stats, scan_order))
                = Len(awards)
          /\ NoDuplicateAwards
    /\ (last_call = "match_admin_save" /\ LiveStats(player_stats) # {}) =>
          /\ AwardSet(MatchAward_assign_match_awards(awards, stat_match,
                                                     player_stats, scan_order))
                = AwardSet(awards)
          /\ Len(MatchAward_assign_match_awards(awards, stat_match,
                                                player_stats, scan_order))
                = Len(awards)
          /\ NoDuplicateAwards

C10_Witness ==
    /\ last_call = "assign_match_awards"
    /\ stat_match.mvp # NoPlayer
    /\ \E k \in 1..Len(awards) : awards[k].award_type = "MVP"
    /\ Len(awards) >= 4

(***************************************************************************)
(* Outcome of a match, editing a match and its stat rows, edit history     *)
(***************************************************************************)

\* a variant that always takes the blue side's point of view
determine_outcome_blue(match) ==
    IF match.winning_team = NoTeam THEN NoOutcome
    ELSE IF match.winning_team = match.blue_side_team THEN "VICTORY" ELSE "DEFEAT"

\* MatchStatsService.determine_outcome(match)
determine_outcome(match) ==
    IF match.winning_team = NoTeam THEN NoOutcome
    ELSE IF match.our_team # NoTeam
         THEN (IF match.winning_team = match.our_team THEN "VICTORY" ELSE "DEFEAT")
         ELSE (IF match.winning_team = match.blue_side_team THEN "VICTORY" ELSE "DEFEAT")

\* MatchStatsService.process_match_save(match): the score is calculated and
\* the outcome is stored with a queryset update when one was determined
ProcessMatchSave ==
    /\ LET scored == [stat_match EXCEPT
                         !.score_details = calculate_score_details(stat_match, player_stats)]
           match_outcome == determine_outcome(scored)
       IN  stat_match' = IF match_outcome # NoOutcome
                         THEN [scored EXCEPT !.match_outcome = match_outcome]
                         ELSE scored
    /\ last_call' = "process_match_save"
    /\ UNCHANGED <<player_stats, awards, edit_history, scan_order>>

\* match_data of update_match: the keys sent and their values
MatchUpdates ==
    {[keys |-> {"winning_team"}, blue_side_team |-> NoTeam, red_side_team |-> NoTeam,
      winning_team |-> 1],
     [keys |-> {"winning_team"}, blue_side_team |-> NoTeam, red_side_team |-> NoTeam,
      winning_team |-> 2],
     [keys |-> {"winning_team"}, blue_side_team |-> NoTeam, red_side_team |-> NoTeam,
      winning_team |-> NoTeam],
     [keys |-> {"blue_side_team", "red_side_team"}, blue_side_team |-> 2,
      red_side_team |-> 1, winning_team |-> NoTeam]}

\* the columns whose values are date objects
DateColumns == {"match_date"}

\* json.dumps(values) raises TypeError for a date object
json_dumps_raises(values) ==
    \E field \in DOMAIN values : field \in DateColumns /\ values[field] # NoDate

\* the values update_match and restore_match_version record of a match
match_values(match) ==
    [match_date |-> match.match_date,
     blue_side_team_id |-> match.blue_side_team,
     red_side_team_id |-> match.red_side_team,
     winning_team_id |-> match.winning_team]

\* the values update_player_stats and restore_match_version record of a row
stat_values(row) ==
    [kills |-> row.kills, deaths |-> row.deaths, assists |-> row.assists]

NewHistoryEntry(match, edit_type, stats_id, previous_values, new_values) ==
    [match |-> match.match_id, edit_type |-> edit_type,
     related_player_stat_id |-> stats_id,
     previous_values |-> previous_values, new_values |-> new_values]

\* MatchStatsService.update_match(match_id, match_data, user): the fields
\* sent are set and saved; creating the history entry serializes the
\* previous values, and an error leaves the saved match without an entry.
\* match_date is never null, so the serialization always raises here and the
\* branch that appends a MATCH_METADATA entry is never taken.
UpdateMatch(data) ==
    LET previous_values == match_values(stat_match)
        m1 == [stat_match EXCEPT
                 !.blue_side_team = IF "blue_side_team" \in data.keys
                                    THEN data.blue_side_team ELSE @,
                 !.red_side_team = IF "red_side_team" \in data.keys
                                   THEN data.red_side_team ELSE @,
                 !.winning_team = IF "winning_team" \in data.keys
                                  THEN data.winning_team ELSE @]
        m2 == IF "winning_team" \in data.keys
              THEN [m1 EXCEPT !.match_outcome = determine_outcome(m1)]
              ELSE m1
        updated_fields == IF "winning_team" \in data.keys
                          THEN data.keys \cup {"match_outcome"} ELSE data.keys
        saved == Match_save(m2, player_stats, updated_fields)
    IN  /\ stat_match' = saved
        /\ IF json_dumps_raises(previous_values)
           THEN /\ edit_history' = edit_history
                /\ last_call' = "update_match_error"
           ELSE /\ Len(edit_history) < MaxEdits
                /\ edit_history' =
                      Append(edit_history,
                             NewHistoryEntry(stat_match, "MATCH_METADATA", 0, previous_values,
                                             [field \in data.keys |-> data[field]]))
                /\ last_call' = "update_match"
        /\ UNCHANGED <<player_stats, awards, scan_order>>

\* MatchStatsService.restore_match_version(history_id, user): the fields of
\* the previous values are set and saved and a restore entry is written for
\* a MATCH_METADATA or PLAYER_STATS entry; an entry of another type is
\* answered with the match as it is
RestoreMatchVersion(history_id) ==
    LET history == edit_history[history_id]
        previous_values == history.previous_values
        stats_id == history.related_player_stat_id
    IN  /\ history_id \in 1..Len(edit_history)
        /\ UNCHANGED scan_order
        /\ IF history.edit_type = "MATCH_METADATA"
           THEN LET current_values == match_values(stat_match)
                    restored == [stat_match EXCEPT
                                    !.match_date = previous_values.match_date,
                                    !.blue_side_team = previous_values.blue_side_team_id,
                                    !.red_side_team = previous_values.red_side_team_id,
                                    !.winning_team = previous_values.winning_team_id]
                IN  /\ stat_match' = Match_save(restored, player_stats,
                                                DOMAIN previous_values)
                    /\ IF json_dumps_raises(current_values)
                       THEN /\ edit_history' = edit_history
                            /\ last_call' = "restore_match_version_error"
                       ELSE /\ Len(edit_history) < MaxEdits
                            /\ edit_history' =
                                  Append(edit_history,
                                         NewHistoryEntry(stat_match, "MATCH_RESTORE", 0,
                                                         current_values, previous_values))
                            /\ last_call' = "restore_match_version"
                    /\ UNCHANGED <<player_stats, awards>>
           ELSE IF history.edit_type = "PLAYER_STATS" /\ stats_id # 0
           THEN IF stats_id \in LiveStats(player_stats)
                THEN LET ps == [player_stats EXCEPT
                                   ![stats_id].kills = previous_values.kills,
                                   ![stats_id].deaths = previous_values.deaths,
                                   ![stats_id].assists = previous_values.assists]
                     IN  /\ Len(edit_history) < MaxEdits
                         /\ player_stats' = ps
                         /\ awards' = MatchAward_assign_match_awards(awards, stat_match,
                                                                     ps, scan_order)
                         /\ edit_history' =
                               Append(edit_history,
                                      NewHistoryEntry(stat_match, "PLAYER_STATS_RESTORE",
                                                      stats_id,
                                                      stat_values(player_stats[stats_id]),
                                                      previous_values))
                         /\ stat_match' =
                               [stat_match EXCEPT
                                   !.score_details = calculate_score_details(stat_match, ps)]
                         /\ last_call' = "restore_match_version"
                ELSE /\ last_call' = "restore_match_version_error"
                     /\ UNCHANGED <<stat_match, player_stats, awards, edit_history>>
           ELSE /\ last_call' = "restore_match_version"
                /\ UNCHANGED <<stat_match, player_stats, awards, edit_history>>

\* an external match as MatchSerializer.create stores it: the home team is
\* a team the uploader manages or none, the winning team a side or none
EditInit ==
    /\ IdentityInit
    /\ SessionInit
    /\ \E our_team \in {NoTeam, 1, 2}, winning_team \in {NoTeam, 1, 2} :
          MatchSetup(our_team, winning_team, NoOutcome, "asc")

EditStep ==
    \/ ProcessMatchSave
    \/ \E data \in MatchUpdates : UpdateMatch(data)
    \/ \E forms \in BulkSubmissions : BulkAddStats(forms)
    \/ \E i \in LiveStats(player_stats), data \in UpdateData : UpdatePlayerStats(i, data)
    \/ \E history_id \in 1..Len(edit_history) : RestoreMatchVersion(history_id)

EditNext == EditStep /\ UNCHANGED <<identityVars, sessionVars, pending>>

SpecEdit == EditInit /\ [][EditNext]_vars

\* the fields recorded in the previous values of an entry have these values
HasPreviousValues(history_id) ==
    LET history == edit_history[history_id]
        stats_id == history.related_player_stat_id
    IN  IF stats_id # 0
        THEN /\ stats_id \in LiveStats(player_stats)
             /\ stat_values(player_stats[stats_id]) = history.previous_values
        ELSE match_values(stat_match) = history.previous_values

(***************************************************************************)
(* C11: a restore of an edit-history entry that returns without an error   *)
(* leaves every field recorded in the previous values of that entry with   *)
(* the value recorded there, for entries of the match and entries of a     *)
(* stat row.                                                               *)
(***************************************************************************)
C11_RestoreSetsPreviousValues ==
    [][\A history_id \in 1..Len(edit_history) :
          (RestoreMatchVersion(history_id) /\ last_call' = "restore_match_version")
             => HasPreviousValues(history_id)']_vars

\* the calls of the three editing operations that returned without an error
SuccessfulEdits == {"update_match", "update_player_stats", "restore_match_version"}

(***************************************************************************)
(* C12: the edit history only grows: no step removes or changes an entry,  *)
(* and every update_match, update_player_stats and restore_match_version   *)
(* that returns without an error appends exactly one entry, a restore one  *)
(* of a restore type.                                                      *)
(***************************************************************************)
C12_EditHistoryAppendOnly ==
    [][/\ Len(edit_history') >= Len(edit_history)
       /\ SubSeq(edit_history', 1, Len(edit_history)) = edit_history
       /\ last_call' \in SuccessfulEdits =>
             /\ Len(edit_history') = Len(edit_history) + 1
             /\ last_call' = "restore_match_version" =>
                   edit_history'[Len(edit_history')].edit_type
                      \in {"MATCH_RESTORE", "PLAYER_STATS_RESTORE"}]_vars

(***************************************************************************)
(* C13: for a match with a winning team and no home team (our_team null)   *)
(* the outcome derived and stored by process_match_save is none: it is     *)
(* not derived from the side that won.                                     *)
(***************************************************************************)
C13_NoHomeTeamNoOutcome ==
    (/\ last_call = "process_match_save"
     /\ stat_match.our_team = NoTeam
     /\ stat_match.winning_team # NoTeam)
    => /\ determine_outcome(stat_match) = NoOutcome
       /\ stat_match.match_outcome = NoOutcome

(***************************************************************************)
(* C14: for a match with a winning team and a home team the derived        *)
(* outcome is VICTORY when the winning team is the home team and DEFEAT    *)
(* otherwise, and process_match_save stores that outcome; without a        *)
(* winning team the derived outcome is none.                               *)
(***************************************************************************)
C14_OutcomeFromHomeTeam ==
    LET expected == IF stat_match.winning_team = stat_match.our_team
                    THEN "VICTORY" ELSE "DEFEAT"
    IN  /\ (stat_match.winning_team # NoTeam /\ stat_match.our_team # NoTeam) =>
              /\ determine_outcome(stat_match) = expected
              /\ last_call = "process_match_save" => stat_match.match_outcome = expected
        /\ stat_match.winning_team = NoTeam => determine_outcome(stat_match) = NoOutcome

C14_Witness ==
    /\ last_call = "process_match_save"
    /\ stat_match.our_team = 2
    /\ stat_match.winning_team = 2
    /\ stat_match.blue_side_team = 1
    /\ stat_match.match_outcome = "VICTORY"

\* (kills + assists) / deaths, kills + assists for 0 deaths, in hundredths
\* (exact for the deaths 0, 1 and 2 of the lines entered here)
KdaOf(row) ==
    IF row.deaths = 0 THEN (row.kills + row.assists) * KdaScale
    ELSE ((row.kills + row.assists) * KdaScale) \div row.deaths

(***************************************************************************)
(* C15: every stat row a bulk entry has just created stores the KDA        *)
(* (kills + assists) / deaths, or kills + assists when deaths is 0.        *)
(***************************************************************************)
C15_StoredKdaIsComputed ==
    last_call = "bulk_add_stats" =>
        \A i \in LiveStats(player_stats) :
            player_stats[i].computed_kda = KdaOf(player_stats[i])

(***************************************************************************)
(* The bulk write of the stat rows of a match, step by step                *)
(***************************************************************************)

\* bulk_add_stats_view, start of the transaction: existing_stats.delete()
BulkBegin(forms) ==
    /\ pending.phase # "rows"
    /\ Len(player_stats) + Len(forms) <= MaxStats
    /\ player_stats' = [i \in 1..Len(player_stats) |-> DeletedStat]
    /\ pending' = [phase |-> "rows", forms |-> forms, stats_saved |-> 0,
                   scored |-> FALSE, awarded |-> FALSE]
    /\ last_call' = "bulk_begin"
    /\ UNCHANGED <<stat_match, awards, edit_history, scan_order>>

\* one turn of the loop over the forms: PlayerMatchStat.objects.create, whose
\* post_save signal update_match_awards assigns the awards of the match
BulkCreateRow ==
    /\ pending.phase = "rows"
    /\ pending.forms # <<>>
    /\ LET ps == player_stats \o BulkRows(stat_match, <<Head(pending.forms)>>)
       IN  /\ player_stats' = ps
           /\ awards' = MatchAward_assign_match_awards(awards, stat_match, ps, scan_order)
    /\ pending' = [pending EXCEPT !.forms = Tail(pending.forms),
                                  !.stats_saved = pending.stats_saved + 1,
                                  !.awarded = TRUE]
    /\ last_call' = "bulk_create_row"
    /\ UNCHANGED <<stat_match, edit_history, scan_order>>

\* after the loop: the score and then the awards are recomputed when a row
\* was saved, and the transaction ends
BulkFinish ==
    /\ pending.phase = "rows"
    /\ pending.forms = <<>>
    /\ IF pending.stats_saved > 0
       THEN /\ stat_match' =
                 [stat_match EXCEPT
                     !.score_details = Match_calculate_score_details(stat_match, player_stats)]
            /\ awards' = MatchAward_assign_match_awards(awards, stat_match,
                                                        player_stats, scan_order)
            /\ pending' = [pending EXCEPT !.phase = "done", !.scored = TRUE,
                                          !.awarded = TRUE]
       ELSE /\ pending' = [pending EXCEPT !.phase = "done"]
            /\ UNCHANGED <<stat_match, awards>>
    /\ last_call' = "bulk_add_stats"
    /\ UNCHANGED <<player_stats, edit_history, scan_order>>

WriteStep ==
    \/ \E forms \in BulkSubmissions \cup KdaSubmissions : BulkBegin(forms)
    \/ BulkCreateRow
    \/ BulkFinish

WriteNext == WriteStep /\ UNCHANGED <<identityVars, sessionVars>>

SpecWrite == StatsInit /\ [][WriteNext]_vars

(***************************************************************************)
(* C16: within one write of the stat rows of a match the awards are        *)
(* computed only after every row of the write was written and the score    *)
(* was recomputed: at no point of a write have the awards been computed    *)
(* while a row is still unwritten or the score is not yet recomputed.      *)
(***************************************************************************)
C16_AwardsAfterRowsAndScore ==
    pending.awarded => (pending.forms = <<>> /\ pending.scored)

\* the operations that change the stat rows or the MVP selection of a match
AwardTriggers ==
    {"admin_stat_save", "bulk_add_stats", "update_player_stats", "match_update"}

\* the stored awards are those an award assignment would store now
AwardsCurrent ==
    \/ AwardSet(awards) =
          AwardSet(MatchAward_assign_match_awards(awards, stat_match, player_stats,
                                                  scan_order))
    \/ AwardSet(awards) =
          AwardSet(assign_match_awards(awards, stat_match, player_stats, scan_order))

(***************************************************************************)
(* C17: after every change of the stat rows of a match (a row created or   *)
(* updated, a bulk replace, also one that removes every row) or of its     *)
(* MVP selection, the stored awards are the awards computed from the rows  *)
(* and selections now stored, and every award names a player who has a     *)
(* stat row in the match.                                                  *)
(***************************************************************************)
C17_AwardsFollowRows ==
    last_call \in AwardTriggers =>
        /\ AwardsCurrent
        /\ \A k \in 1..Len(awards) :
              \E i \in LiveStats(player_stats) : player_stats[i].player = awards[k].player

(***************************************************************************)
(* C18: in every reachable state a match has at most one award of each     *)
(* award type.                                                             *)
(***************************************************************************)
C18_OneAwardPerType ==
    \A a, b \in 1..Len(awards) :
        (a # b /\ awards[a].match = awards[b].match)
        => awards[a].award_type # awards[b].award_type

\* the awards were assigned again for rows that replaced awarded rows
C18_Witness ==
    /\ last_call = "bulk_add_stats"
    /\ \E i \in 1..Len(player_stats) : ~player_stats[i].live
    /\ Cardinality(LiveStats(player_stats)) = 1
    /\ Len(awards) >= 5

\* the operations that end with the awards of the match recomputed
AwardRecomputes ==
    {"admin_stat_save", "update_player_stats", "match_admin_save", "assign_match_awards"}

(***************************************************************************)
(* C19: when the awards of a match with a designated MVP have just been    *)
(* recomputed, on any path, every MVP award of the match is the award of   *)
(* the designated player, with the KDA of a stat row of that player as     *)
(* its value, and the designated player has the MVP award when the player  *)
(* has a stat row in the match.                                            *)
(***************************************************************************)
C19_MvpIsDesignatedPlayer ==
    (last_call \in AwardRecomputes /\ stat_match.mvp # NoPlayer) =>
        /\ \A k \in 1..Len(awards) :
              awards[k].award_type = "MVP" =>
                 /\ awards[k].player = stat_match.mvp
                 /\ \E i \in LiveStats(player_stats) :
                       /\ player_stats[i].player = stat_match.mvp
                       /\ player_stats[i].computed_kda = awards[k].stat_value
        /\ (\E i \in LiveStats(player_stats) : player_stats[i].player = stat_match.mvp)
              => \E k \in 1..Len(awards) : awards[k].award_type = "MVP"

(***************************************************************************)
(* C20: a resolution asked with a player id that no stored player has (and *)
(* not marked as a new player) does not fail: its answer is the answer of  *)
(* the search by name for the given name and team.                         *)
(***************************************************************************)
C20_UnknownIdFallsBackToName ==
    LET request == resolution.request
    IN  (/\ Len(request) = 4
         /\ request[1] # NoName
         /\ request[3] # NoPlayer
         /\ request[3] \notin PlayerIds
         /\ ~request[4])
        => /\ resolution.response.action # "raised"
           /\ resolution.response.action \in {"use_existing", "create_new"}

\* ---------------------------------------------------------------
\* Renames and aliases
\* ---------------------------------------------------------------

\* C21: whenever a step replaces a player's current name, an alias of that
\* player holding the old name exists once the step is done, and no alias
\* row is ever dropped or rewritten
C21_RenameKeepsOldName ==
    [][/\ \A p \in DOMAIN players :
            players'[p].current_ign # players[p].current_ign /\ players[p].current_ign # NoName
                => \E i \in DOMAIN aliases' :
                      aliases'[i] = [player |-> p, alias |-> players[p].current_ign]
       /\ Len(aliases') >= Len(aliases)
       /\ SubSeq(aliases', 1, Len(aliases)) = aliases]_vars

\* ---------------------------------------------------------------
\* Transfers
\* ---------------------------------------------------------------

\* C22: a transfer to the team of the open membership changes no membership
\* row; a transfer to another team closes the open row and adds exactly one
\* open row for the destination
C22_TransferEffect ==
    [][\A p \in PlayerIds, team \in Teams :
          LET cur == FirstOpen(team_history, p)
              IsTransfer == \E d \in Days \cup {NoDate} :
                                ServiceTransfer(p, team, d) \/ ModelTransfer(p, team, d)
              ClosedAt(h) == {[h EXCEPT ![cur].left_date = d] : d \in Days}
          IN  (cur # 0 /\ IsTransfer) =>
                 IF team_history[cur].team = team
                 THEN team_history' = team_history
                 ELSE /\ Len(team_history') = Len(team_history) + 1
                      /\ SubSeq(team_history', 1, Len(team_history)) \in ClosedAt(team_history)
                      /\ team_history'[Len(team_history')].player = p
                      /\ team_history'[Len(team_history')].team = team
                      /\ team_history'[Len(team_history')].left_date = NoDate]_vars

\* ---------------------------------------------------------------
\* Membership intervals over a sequence of transfers
\* ---------------------------------------------------------------

\* the membership rows one player's sequence of transfers may reach
MaxRows == 3

RowsRoom == Len(team_history) < MaxRows

\* PlayerService.transfer_player_to_team with a transfer date of the caller's choice
TransferPlayerToTeam(p, team, d) ==
    /\ RowsRoom
    /\ team_history' = transfer_player_to_team(team_history, p, team, TransferDate(d))
    /\ resolution' = NoResolution
    /\ UNCHANGED <<players, aliases, today>>

\* PlayerAdmin.save_related with a current team selected in the form
AdminCurrentTeam(p, team) ==
    /\ RowsRoom
    /\ team_history' = save_related(team_history, p, team, today)
    /\ resolution' = NoResolution
    /\ UNCHANGED <<players, aliases, today>>

TransferStep ==
    \/ \E ign \in Names, team \in Teams : GetOrCreatePlayerForTeam(ign, team)
    \/ \E ign \in Names, team \in Teams \cup {NoTeam} : PlayerSerializerCreate(ign, team)
    \/ \E p \in PlayerIds, team \in Teams, d \in Days \cup {NoDate} : TransferPlayerToTeam(p, team, d)
    \/ \E p \in PlayerIds, team \in Teams : AdminCurrentTeam(p, team)
    \/ NextDay

TransferNext == TransferStep /\ UNCHANGED <<sessionVars, statsVars>>

SpecTransfer == Init /\ [][TransferNext]_vars

\* C23: no two membership rows of one player cover a common period: the
\* last day of a row is its left_date (an open row lasts beyond every day),
\* and two rows overlap when they share more than the day of the hand-over
C23_MembershipsDisjoint ==
    LET LastDay(row) == IF row.left_date = NoDate THEN MaxDay + 1 ELSE row.left_date
        Overlap(a, b) ==
            /\ a.joined_date <= LastDay(a)
            /\ b.joined_date <= LastDay(b)
            /\ a.joined_date < LastDay(b)
            /\ b.joined_date < LastDay(a)
    IN  \A i, j \in DOMAIN team_history :
            (i # j /\ team_history[i].player = team_history[j].player)
                => ~Overlap(team_history[i], team_history[j])

\* ---------------------------------------------------------------
\* Matches that cannot be grouped
\* ---------------------------------------------------------------

\* C24: for a match with no home team or no match type, session assignment
\* is skipped: the match keeps no session and the game number it came with,
\* and the step that handled it creates no session
C24_SkipWithoutContext ==
    [][\A m \in DOMAIN matches' :
          LET handled == m > Len(matches) \/ matches'[m] # matches[m]
              no_context == matches'[m].our_team = NoTeam \/ matches'[m].scrim_type = NoType
          IN  (handled /\ matches'[m].live /\ no_context) =>
                 /\ matches'[m].scrim_group = NoGroup
                 /\ ~matches'[m].numbered
                 /\ scrim_groups' = scrim_groups]_vars

\* ---------------------------------------------------------------
\* Contents of an edit-history entry
\* ---------------------------------------------------------------

\* C25: the previous-values and new-values maps of every edit-history entry
\* hold the same fields, and each field they hold has a new value different
\* from its previous value
C25_HistoryHoldsOnlyChanges ==
    \A h \in DOMAIN edit_history :
        LET entry == edit_history[h]
        IN  /\ DOMAIN entry.previous_values = DOMAIN entry.new_values
            /\ \A field \in DOMAIN entry.previous_values :
                   entry.previous_values[field] # entry.new_values[field]

\* ---------------------------------------------------------------
\* Suggested game number
\* ---------------------------------------------------------------

\* timedelta(hours=4) of suggest_game_number
SuggestWindowHours == 4

\* a variant that looks for the two teams on the sides as given only
suggest_game_number_sides(ms, our_team, opponent_team, match_datetime, scrim_type) ==
    LET time_window_start == match_datetime - SuggestWindowHours * UnitsPerHour
        time_window_end == match_datetime + SuggestWindowHours * UnitsPerHour
        existing_matches ==
            {m \in 1..Len(ms) :
                /\ ms[m].live
                /\ ms[m].blue_side_team = our_team /\ ms[m].red_side_team = opponent_team
                /\ ms[m].scrim_type = scrim_type
                /\ ms[m].match_date >= time_window_start
                /\ ms[m].match_date <= time_window_end}
    IN  IF existing_matches = {} THEN 1
        ELSE MaxOf({ms[m].game_number : m \in existing_matches}) + 1

\* MatchStatsService.suggest_game_number(our_team, opponent_team,
\* match_datetime, scrim_type)
suggest_game_number(ms, our_team, opponent_team, match_datetime, scrim_type) ==
    LET time_window_start == match_datetime - SuggestWindowHours * UnitsPerHour
        time_window_end == match_datetime + SuggestWindowHours * UnitsPerHour
        existing_matches ==
            {m \in 1..Len(ms) :
                /\ ms[m].live
                /\ \/ ms[m].blue_side_team = our_team /\ ms[m].red_side_team = opponent_team
                   \/ ms[m].blue_side_team = opponent_team /\ ms[m].red_side_team = our_team
                /\ ms[m].scrim_type = scrim_type
                /\ ms[m].match_date >= time_window_start
                /\ ms[m].match_date <= time_window_end}
    IN  IF existing_matches = {} THEN 1
        ELSE MaxOf({ms[m].game_number : m \in existing_matches}) + 1

\* MatchViewSet.suggest_game_number: the suggestion for the query parameters
SuggestGameNumber(our_team, opponent_team, match_datetime, scrim_type) ==
    /\ suggestion' =
          [request |-> <<our_team, opponent_team, match_datetime, scrim_type>>,
           response |-> suggest_game_number(matches, our_team, opponent_team,
                                            match_datetime, scrim_type)]
    /\ UNCHANGED <<matches, scrim_groups, assigning>>

\* 05:30, 06:00, 10:00, 14:00 and 14:30: around a match played at 10:00
SuggestTimes == {11, 12, 20, 28, 29}

\* the time of the stored matches a suggestion is asked around
PlayedAt == 20

SuggestStep ==
    \/ \E pr \in OrderedTeamPairs, type \in ScrimTypes, number \in GameNumbers :
            PerformCreate(pr[1], pr[1], pr[2], type, PlayedAt, number)
    \/ \E m \in LiveMatches : DeleteMatch(m)
    \/ \E pr \in OrderedTeamPairs, t \in SuggestTimes, type \in ScrimTypes :
            SuggestGameNumber(pr[1], pr[2], t, type)

SuggestNext == SuggestStep /\ UNCHANGED <<identityVars, statsVars>>

SpecSuggest == Init /\ [][SuggestNext]_vars

\* C26: a suggestion is 1 when no match between the two teams of the type
\* lies within 4 hours of the given time, and otherwise one more than the
\* highest game number among those matches
C26_SuggestionIsNextNumber ==
    LET request == suggestion.request
        NearbyGames ==
            {m \in LiveMatches :
                /\ {matches[m].blue_side_team, matches[m].red_side_team}
                      = {request[1], request[2]}
                /\ matches[m].scrim_type = request[4]
                /\ matches[m].match_date - request[3] <= SuggestWindowHours * UnitsPerHour
                /\ request[3] - matches[m].match_date <= SuggestWindowHours * UnitsPerHour}
    IN  suggestion # NoSuggestion =>
            \A n \in 1..(MaxMatches + 3) :
                suggestion.response = n <=>
                    IF NearbyGames = {} THEN n = 1
                    ELSE /\ \E m \in NearbyGames : matches[m].game_number = n - 1
                         /\ \A m \in NearbyGames : matches[m].game_number <= n - 1

\* a suggestion above 1 answered from a match stored with the sides swapped,
\* asked for exactly 4 hours after it
C26_Witness ==
    /\ suggestion # NoSuggestion
    /\ suggestion.response = 3
    /\ suggestion.request[3] = PlayedAt + SuggestWindowHours * UnitsPerHour
    /\ \E m \in LiveMatches :
           /\ matches[m].blue_side_team = suggestion.request[2]
           /\ matches[m].red_side_team = suggestion.request[1]
           /\ matches[m].scrim_type = suggestion.request[4]
           /\ matches[m].game_number = 2

\* ---------------------------------------------------------------
\* Winners of the superlative awards
\* ---------------------------------------------------------------

\* C27: once the awards of a match with stat rows have been assigned, each
\* of the best-KDA, most-kills and most-assists awards names the player of
\* the first row that holds the maximum of its column
C27_FirstMaxRowWins ==
    LET SuperlativeField ==
            [BEST_KDA |-> "computed_kda", MOST_KILLS |-> "kills", MOST_ASSISTS |-> "assists"]
        rows == LiveStats(player_stats)
        FirstMaxRow(stat_field) ==
            MinOf({i \in rows : \A j \in rows :
                      player_stats[i][stat_field] >= player_stats[j][stat_field]})
    IN  (last_call = "assign_match_awards" /\ rows # {}) =>
            \A award_type \in DOMAIN SuperlativeField :
                \E a \in DOMAIN awards :
                    /\ awards[a].award_type = award_type
                    /\ awards[a].player =
                          player_stats[FirstMaxRow(SuperlativeField[award_type])].player

\* ---------------------------------------------------------------
\* Stored outcome after an edit
\* ---------------------------------------------------------------

\* C28: update_match and restore_match_version leave the stored outcome
\* equal to determine_outcome of the match's winning team and home team as
\* they are after the call, when it was so before the call
C28_OutcomeFollowsEdit ==
    [][LET OutcomeCurrent(match) == match.match_outcome = determine_outcome(match)
           MatchEdits == {"update_match", "update_match_error",
                          "restore_match_version", "restore_match_version_error"}
       IN  (last_call' \in MatchEdits /\ OutcomeCurrent(stat_match))
              => OutcomeCurrent(stat_match')]_vars

\* ---------------------------------------------------------------
\* Stored KDA after an edit of a row
\* ---------------------------------------------------------------

\* C29: when update_player_stats or a restore of player statistics changes
\* the kills, deaths or assists of a row, the KDA stored with the row
\* afterwards is the KDA formula applied to the new kills, deaths and assists
C29_KdaFollowsEdit ==
    [][last_call' \in {"update_player_stats", "restore_match_version"} =>
          \A i \in LiveStats(player_stats) \cap LiveStats(player_stats') :
              stat_values(player_stats'[i]) # stat_values(player_stats[i])
                  => player_stats'[i].computed_kda = KdaOf(player_stats'[i])]_vars

\* ---------------------------------------------------------------
\* assign_scrim_group_for_match running for several matches at once
\* ---------------------------------------------------------------

\* a new match is stored and a call of assign_scrim_group_for_match for it begins
BeginAssign(our, blue, red, type, t, number) ==
    /\ Len(matches) < MaxMatches
    /\ matches' = Append(matches, NewMatch(our, blue, red, type, t, number))
    /\ assigning' = Append(assigning, [match |-> Len(matches) + 1, pc |-> "lookup",
                                       scrim_group |-> NoGroup, count |-> 0])
    /\ UNCHANGED <<scrim_groups, suggestion>>

\* the early return, the previous-match query and get_or_create: the call
\* holds the group of the previous match, or the group of that name and
\* date, created when there is none
AssignLookup(c) ==
    LET m == assigning[c].match
        name == group_name(matches[m])
        date == DateOf(matches[m].match_date)
        found == GroupsNamed(scrim_groups, name, date)
    IN  /\ assigning[c].pc = "lookup"
        /\ IF CannotGroup(matches[m])
           THEN /\ assigning' = [assigning EXCEPT ![c].pc = "done"]
                /\ UNCHANGED scrim_groups
           ELSE \E prev \in PreviousChoices(matches, m) :
                   IF prev # 0 /\ matches[prev].scrim_group # NoGroup
                   THEN /\ assigning' = [assigning EXCEPT
                                            ![c].scrim_group = matches[prev].scrim_group,
                                            ![c].pc = "save"]
                        /\ UNCHANGED scrim_groups
                   ELSE IF found # {}
                   THEN /\ assigning' = [assigning EXCEPT ![c].scrim_group = MinOf(found),
                                                          ![c].pc = "save"]
                        /\ UNCHANGED scrim_groups
                   ELSE /\ scrim_groups' =
                              Append(scrim_groups,
                                     [scrim_group_name |-> name, start_date |-> date])
                        /\ assigning' = [assigning EXCEPT
                                            ![c].scrim_group = Len(scrim_groups) + 1,
                                            ![c].pc = "save"]
        /\ UNCHANGED <<matches, suggestion>>

\* match.save(update_fields=['scrim_group'])
AssignSave(c) ==
    /\ assigning[c].pc = "save"
    /\ matches' = [matches EXCEPT ![assigning[c].match].scrim_group = assigning[c].scrim_group]
    /\ assigning' = [assigning EXCEPT ![c].pc = "count"]
    /\ UNCHANGED <<scrim_groups, suggestion>>

\* existing_matches.count() over the other matches of the group
AssignCount(c) ==
    /\ assigning[c].pc = "count"
    /\ assigning' = [assigning EXCEPT
                        ![c].count = game_number_for(matches, assigning[c].match) - 1,
                        ![c].pc = "write"]
    /\ UNCHANGED <<matches, scrim_groups, suggestion>>

\* Match.objects.filter(pk=match.pk).update(game_number=count + 1)
AssignWrite(c) ==
    /\ assigning[c].pc = "write"
    /\ matches' = [matches EXCEPT ![assigning[c].match].game_number = assigning[c].count + 1,
                                  ![assigning[c].match].numbered = TRUE]
    /\ assigning' = [assigning EXCEPT ![c].pc = "done"]
    /\ UNCHANGED <<scrim_groups, suggestion>>

\* the times of the matches submitted together: 10:00 and 10:30
RaceTimes == {20, 21}

RaceStep ==
    \/ \E pr \in OrderedTeamPairs, type \in ScrimTypes \cup {NoType}, t \in RaceTimes :
            BeginAssign(pr[1], pr[1], pr[2], type, t, 1)
    \/ \E c \in DOMAIN assigning : AssignLookup(c)
    \/ \E c \in DOMAIN assigning : AssignSave(c)
    \/ \E c \in DOMAIN assigning : AssignCount(c)
    \/ \E c \in DOMAIN assigning : AssignWrite(c)

RaceNext == RaceStep /\ UNCHANGED <<identityVars, statsVars>>

SpecRace == Init /\ [][RaceNext]_vars

\* C30: two matches whose calls of assign_scrim_group_for_match ran to the
\* end, in any interleaving, and which are in the same session, have
\* different game numbers
C30_ConcurrentNumbersDiffer ==
    \A c, d \in DOMAIN assigning :
        (/\ c # d
         /\ assigning[c].pc = "done" /\ assigning[d].pc = "done"
         /\ matches[assigning[c].match].scrim_group # NoGroup
         /\ matches[assigning[c].match].scrim_group = matches[assigning[d].match].scrim_group)
            => matches[assigning[c].match].game_number # matches[assigning[d].match].game_number

====
